---- MODULE Spec2Model ----
(***************************************************************************)
(* Notes Management API (notes_backend/src/api/main.py).                   *)
(*                                                                         *)
(* The endpoints are plain `def` functions, which FastAPI runs on worker   *)
(* threads of a pool: several requests are in flight at once, and they     *)
(* share the one NotesService instance, which takes no lock.  A request is *)
(* modelled as the sequence of its accesses to the shared objects (the     *)
(* dict `_store`, the system clock, the uuid generator); what lies between *)
(* two such accesses is local to the thread.                               *)
(*                                                                         *)
(* Strings are sequences of characters, Python's None is the value None,   *)
(* an Optional[Note] is a sequence of at most one note, and the dict is    *)
(* the sequence of its values in insertion order.                          *)
(*                                                                         *)
(* Environment: datetime.utcnow() reads the wall clock, which has a finite  *)
(* resolution and can be set: a reading is later than the one before it,   *)
(* equal to it, or earlier.  Timestamps are only ever copied and compared, *)
(* so the readings are a few ticks.  uuid4() never returns a value it has  *)
(* returned before.                                                        *)
(***************************************************************************)
EXTENDS Naturals, Sequences, FiniteSets

\* ------------------------------------------------------------- bounds
\* worker threads serving requests
NumWorkers == 2
\* requests admitted in one run
MaxRequests == 3
\* longest title a request carries
MaxTitleLen == 2
\* requests of a run in which one client sends them one after another
SeqRequests == 5
\* notes that client creates
SeqNotes == 1
\* the latest tick the wall clock reads
MaxClock == 2

\* ------------------------------------------------------------- values
Threads == 1..NumWorkers
\* the uuids: every create is a request, so no more than MaxRequests are drawn
UUIDs == 1..MaxRequests
Whitespace == {" "}
Chars == Whitespace \cup {"a"}
None == <<"None">>
\* a key the request body does not have
Missing == <<"Missing">>
ValueError == <<"ValueError">>
Strings(n) == UNION {[1..k -> Chars] : k \in 0..n}
TitleInputs == Strings(MaxTitleLen) \cup {None, Missing}
ContentInputs == {<<>>, <<"a">>, None, Missing}

HTTP_200_OK == 200
HTTP_201_CREATED == 201
HTTP_204_NO_CONTENT == 204
HTTP_404_NOT_FOUND == 404
HTTP_422_UNPROCESSABLE == 422

VARIABLES
  store,     \* NotesService._store: the notes, in insertion order
  clock,     \* the last reading of the system clock
  nextId,    \* the uuid generator: the next value it has not handed out
  budget,    \* requests the clients send in this run
  nreq,      \* requests admitted so far
  pc,        \* per thread: where its request stands
  req,       \* per thread: the request being served (operation, path id, validated body)
  note,      \* per thread: the local `note` (create: line 64, update: line 84)
  updated,   \* per thread: the local `updated` of update (line 94)
  resp,      \* the last response sent: the request it answers, status, body
  created,   \* history: id -> the note a successful create returned for it
  ncreated,  \* history: number of successful creates
  deleted,   \* history: ids whose delete answered 204
  ndeleted,  \* history: number of deletes that answered 204
  written,   \* history: ids an update has stored a note under
  revived,   \* history: ids an update stored after a delete of that id
  scenario   \* history: how far the requests answered so far are POST, GET,
             \* PUT content only, DELETE, GET of one note, and that note's id

vars == <<store, clock, nextId, budget, nreq, pc, req, note, updated, resp,
          created, ncreated, deleted, ndeleted, written, revived, scenario>>
hist == <<created, ncreated, deleted, ndeleted, written, revived>>

\* ------------------------------------------------------------- str
RECURSIVE lstrip(_)
lstrip(s) == IF s # <<>> /\ Head(s) \in Whitespace THEN lstrip(Tail(s)) ELSE s

RECURSIVE rstrip(_)
rstrip(s) ==
  IF s # <<>> /\ s[Len(s)] \in Whitespace
  THEN rstrip(SubSeq(s, 1, Len(s) - 1))
  ELSE s

\* str.strip()
strip(s) == rstrip(lstrip(s))

\* ------------------------------------------------------------- schemas
\* mutant: only the empty string is refused, before stripping
validate_title_empty_only(v) ==
  IF v = None \/ v = <<>> THEN ValueError ELSE strip(v)

\* mutant: the title is checked but returned unstripped
validate_title_no_strip(v) ==
  IF v = None \/ strip(v) = <<>> THEN ValueError ELSE v

\* NoteBase.validate_title_non_empty: the stripped title, or ValueError.
\* `title: str` is required, so a missing or null title is refused too.
validate_title_non_empty(v) ==
  IF v = None \/ strip(v) = <<>> THEN ValueError ELSE strip(v)

\* mutant: a supplied title is refused only when it is the empty string
validate_title_if_present_empty_only(v) ==
  IF v = None THEN v
  ELSE IF v = <<>> THEN ValueError
  ELSE strip(v)

\* NoteUpdate.validate_title_if_present
validate_title_if_present(v) ==
  IF v = None THEN v
  ELSE IF strip(v) = <<>> THEN ValueError
  ELSE strip(v)

\* Field(default, ...): the value of a key, the default when it is missing
Field(v, default) == IF v = Missing THEN default ELSE v

\* NoteCreate(title=..., content=...): the validated payload; title is
\* required (Field(...)), content defaults to None
NoteCreate(title, content) ==
  [title |-> IF title = Missing THEN ValueError ELSE validate_title_non_empty(title),
   content |-> Field(content, None)]

\* mutant: a null content is read as the empty string
NoteUpdateNullAsEmpty(title, content) ==
  [title |-> validate_title_if_present(Field(title, None)),
   content |-> IF content = None THEN <<>> ELSE Field(content, None)]

\* NoteUpdate(title=..., content=...): the validated payload; both fields
\* default to None
NoteUpdate(title, content) ==
  [title |-> validate_title_if_present(Field(title, None)),
   content |-> Field(content, None)]

\* Note(id=..., title=..., ...): NoteBase's validator runs again on title
Note(id, title, content, created_at, updated_at) ==
  [id |-> id, title |-> validate_title_non_empty(title), content |-> content,
   created_at |-> created_at, updated_at |-> updated_at]

\* ------------------------------------------------------------- dict
\* keys of the dict
Keys(d) == {d[i].id : i \in DOMAIN d}

\* mutant: the lookup ignores the key and returns the first value
DictGetAny(d, k) == IF d # <<>> THEN <<d[1]>> ELSE <<>>

\* dict.get(k): <<>> for None, else <<value>>
DictGet(d, k) ==
  IF k \in Keys(d) THEN <<d[CHOOSE i \in DOMAIN d : d[i].id = k]>> ELSE <<>>

\* d[k] = v: in place when the key is there, appended when it is not
DictSet(d, k, v) ==
  IF k \in Keys(d)
  THEN [i \in DOMAIN d |-> IF d[i].id = k THEN v ELSE d[i]]
  ELSE Append(d, v)

\* mutant: the entry stays
DictDelNoop(d, k) == d

\* mutant: the filter is inverted, the other entries go
DictDelInverted(d, k) == SelectSeq(d, LAMBDA n : n.id = k)

\* del d[k], for a key that is there
DictDel(d, k) == SelectSeq(d, LAMBDA n : n.id # k)

\* ------------------------------------------------------------- requests
NoPayload == [title |-> None, content |-> None]
NoRequest == [op |-> "none", id |-> 0, payload |-> NoPayload]
Request(op, id, payload) == [op |-> op, id |-> id, payload |-> payload]
NoResponse == [op |-> "none", id |-> 0, status |-> 0, body |-> <<>>]

\* the requests answered so far: none yet
NoScenario == [on |-> TRUE, step |-> 0, id |-> 0]

\* the requests answered so far, with request r answered by status s: the
\* next request of POST (valid body), GET, PUT content only, DELETE, GET of
\* the note the POST created, or off that course for good
ScenarioStep(sc, r, s) ==
  IF ~sc.on THEN sc
  ELSE IF sc.step = 0 /\ r.op = "create" /\ r.payload.title # ValueError
  THEN [sc EXCEPT !.step = 1, !.id = r.id]
  ELSE IF sc.step = 1 /\ r.op = "get" /\ r.id = sc.id
  THEN [sc EXCEPT !.step = 2]
  ELSE IF /\ sc.step = 2 /\ r.op = "update" /\ r.id = sc.id
          /\ r.payload.title = None /\ r.payload.content # None
  THEN [sc EXCEPT !.step = 3]
  ELSE IF sc.step = 3 /\ r.op = "delete" /\ r.id = sc.id
  THEN [sc EXCEPT !.step = 4]
  ELSE IF sc.step = 4 /\ r.op = "get" /\ r.id = sc.id
  THEN [sc EXCEPT !.step = 5]
  ELSE [sc EXCEPT !.on = FALSE]

Idle(t) == pc[t] = "idle"
\* a request is taken up by a free worker; the free workers are alike, so it
\* is the first of them
Admit(t) == Idle(t) /\ nreq < budget /\ \A u \in Threads : u < t => ~Idle(u)

\* datetime.utcnow(): the readings the wall clock can give next; nothing
\* ties a reading to the last one
utcnow == 0..MaxClock

\* thread t answers request r with status s and body b; its locals are gone
Respond(t, r, s, b) ==
  /\ pc' = [pc EXCEPT ![t] = "idle"]
  /\ req' = [req EXCEPT ![t] = NoRequest]
  /\ note' = [note EXCEPT ![t] = <<>>]
  /\ updated' = [updated EXCEPT ![t] = <<>>]
  /\ resp' = [op |-> r.op, id |-> r.id, status |-> s, body |-> b]
  /\ scenario' = ScenarioStep(scenario, r, s)

Init ==
  /\ store = <<>>
  /\ clock = 0
  /\ nextId = 1
  /\ budget = MaxRequests
  /\ nreq = 0
  /\ pc = [t \in Threads |-> "idle"]
  /\ req = [t \in Threads |-> NoRequest]
  /\ note = [t \in Threads |-> <<>>]
  /\ updated = [t \in Threads |-> <<>>]
  /\ resp = NoResponse
  /\ created = [i \in UUIDs |-> <<>>]
  /\ ncreated = 0
  /\ deleted = {}
  /\ ndeleted = 0
  /\ written = {}
  /\ revived = {}
  /\ scenario = NoScenario

\* uuid4(): a value not handed out before
uuid4 == nextId

\* mutant: the id is the position in the store, as a list index would be
NewIdFromCount == Len(store) + 1

\* NotesService.create, line 64: the id the new note gets
NewId == uuid4

\* POST /notes with body {title, content}: the body is validated (422), then
\* NotesService.create reads the clock, draws the id and builds the note
\* (lines 63-64).
create_note(t, title, content) ==
  LET payload == NoteCreate(title, content)
      r == Request("create", 0, payload) IN
  /\ Admit(t)
  /\ nreq' = nreq + 1
  /\ IF payload.title = ValueError
     THEN /\ Respond(t, r, HTTP_422_UNPROCESSABLE, <<>>)
          /\ UNCHANGED <<store, clock, nextId, budget, hist>>
     ELSE /\ req' = [req EXCEPT ![t] = r]
          /\ \E now \in utcnow :
               /\ clock' = now
               /\ note' = [note EXCEPT ![t] =
                    <<Note(NewId, payload.title, payload.content, now, now)>>]
          /\ nextId' = nextId + 1
          /\ pc' = [pc EXCEPT ![t] = "create_insert"]
          /\ UNCHANGED <<store, budget, updated, resp, scenario, hist>>

CreateNote(t) ==
  \E title \in TitleInputs, content \in ContentInputs : create_note(t, title, content)

\* mutant: the note is stored without its content, and returned with it
CreateInsertDropsContent(t) ==
  /\ pc[t] = "create_insert"
  /\ LET n == note[t][1] IN
     /\ store' = DictSet(store, n.id, [n EXCEPT !.content = None])
     /\ Respond(t, [req[t] EXCEPT !.id = n.id], HTTP_201_CREATED, <<n>>)
     /\ created' = [created EXCEPT ![n.id] = <<n>>]
     /\ ncreated' = ncreated + 1
  /\ UNCHANGED <<clock, nextId, budget, nreq, deleted, ndeleted, written, revived>>

\* NotesService.create, lines 65-66: the note is stored and returned (201).
CreateInsert(t) ==
  /\ pc[t] = "create_insert"
  /\ LET n == note[t][1] IN
     /\ store' = DictSet(store, n.id, n)
     /\ Respond(t, [req[t] EXCEPT !.id = n.id], HTTP_201_CREATED, <<n>>)
     /\ created' = [created EXCEPT ![n.id] = <<n>>]
     /\ ncreated' = ncreated + 1
  /\ UNCHANGED <<clock, nextId, budget, nreq, deleted, ndeleted, written, revived>>

\* GET /notes: NotesService.list, the values in the dict's order (200).
ListNotes(t) ==
  /\ Admit(t)
  /\ nreq' = nreq + 1
  /\ Respond(t, Request("list", 0, NoPayload), HTTP_200_OK, store)
  /\ UNCHANGED <<store, clock, nextId, budget, hist>>

\* mutant: the lookup takes the note out of the dict, as dict.pop would
get_note_pop(t, note_id) ==
  LET n == DictGet(store, note_id)
      r == Request("get", note_id, NoPayload) IN
  /\ Admit(t)
  /\ nreq' = nreq + 1
  /\ IF n = <<>>
     THEN Respond(t, r, HTTP_404_NOT_FOUND, <<>>)
     ELSE Respond(t, r, HTTP_200_OK, n)
  /\ store' = DictDel(store, note_id)
  /\ UNCHANGED <<clock, nextId, budget, hist>>

\* GET /notes/{id}: NotesService.get; KeyError becomes 404.
get_note(t, note_id) ==
  LET n == DictGet(store, note_id)
      r == Request("get", note_id, NoPayload) IN
  /\ Admit(t)
  /\ nreq' = nreq + 1
  /\ IF n = <<>>
     THEN Respond(t, r, HTTP_404_NOT_FOUND, <<>>)
     ELSE Respond(t, r, HTTP_200_OK, n)
  /\ UNCHANGED <<store, clock, nextId, budget, hist>>

GetNote(t) == \E note_id \in UUIDs : get_note(t, note_id)

\* PUT /notes/{id} with body {title, content}: the body is validated (422),
\* then NotesService.update looks the note up (lines 84-86); KeyError
\* becomes 404.
update_note(t, note_id, title, content) ==
  LET payload == NoteUpdate(title, content)
      r == Request("update", note_id, payload)
      n == DictGet(store, note_id) IN
  /\ Admit(t)
  /\ nreq' = nreq + 1
  /\ IF payload.title = ValueError
     THEN Respond(t, r, HTTP_422_UNPROCESSABLE, <<>>)
     ELSE IF n = <<>>
     THEN Respond(t, r, HTTP_404_NOT_FOUND, <<>>)
     ELSE /\ req' = [req EXCEPT ![t] = r]
          /\ note' = [note EXCEPT ![t] = n]
          /\ pc' = [pc EXCEPT ![t] = "update_merge"]
          /\ UNCHANGED <<updated, resp, scenario>>
  /\ UNCHANGED <<store, clock, nextId, budget, hist>>

UpdateNote(t) ==
  \E note_id \in UUIDs, title \in TitleInputs, content \in ContentInputs :
    update_note(t, note_id, title, content)

\* mutant: both fields are taken from the payload, supplied or not
MergeAll(n, payload) ==
  [n EXCEPT !.title = IF payload.title # None THEN payload.title ELSE @,
            !.content = payload.content]

\* NotesService.update, lines 88-92: the note read, with the fields the
\* payload supplies (those that are not None) replaced.
Merge(n, payload) ==
  [n EXCEPT !.title = IF payload.title # None THEN payload.title ELSE @,
            !.content = IF payload.content # None THEN payload.content ELSE @]

\* mutant: nothing is stamped
RestampNever(data, now) == data

\* mutant: both timestamps are stamped
RestampBoth(data, now) == [data EXCEPT !.created_at = now, !.updated_at = now]

\* NotesService.update, line 93: data["updated_at"] = now
Restamp(data, now) == [data EXCEPT !.updated_at = now]

\* NotesService.update, lines 88-94: the clock is read and `updated` built.
UpdateMerge(t) ==
  /\ pc[t] = "update_merge"
  /\ \E now \in utcnow :
       LET data == Restamp(Merge(note[t][1], req[t].payload), now) IN
       /\ clock' = now
       /\ updated' = [updated EXCEPT ![t] =
            <<Note(data.id, data.title, data.content, data.created_at, data.updated_at)>>]
  /\ pc' = [pc EXCEPT ![t] = "update_store"]
  /\ UNCHANGED <<store, nextId, budget, nreq, req, note, resp, scenario, hist>>

\* NotesService.update, lines 95-96: `updated` is stored under the id and
\* returned (200).
UpdateStore(t) ==
  /\ pc[t] = "update_store"
  /\ LET u == updated[t][1] IN
     /\ store' = DictSet(store, req[t].id, u)
     /\ Respond(t, req[t], HTTP_200_OK, <<u>>)
     /\ written' = written \cup {req[t].id}
     /\ revived' = IF req[t].id \in Keys(store) THEN revived
                   ELSE revived \cup {req[t].id}
  /\ UNCHANGED <<clock, nextId, budget, nreq, created, ncreated, deleted, ndeleted>>

\* DELETE /notes/{id}: NotesService.delete, lines 101-102; KeyError
\* becomes 404.
delete_note(t, note_id) ==
  LET r == Request("delete", note_id, NoPayload) IN
  /\ Admit(t)
  /\ nreq' = nreq + 1
  /\ IF note_id \notin Keys(store)
     THEN Respond(t, r, HTTP_404_NOT_FOUND, <<>>)
     ELSE /\ req' = [req EXCEPT ![t] = r]
          /\ pc' = [pc EXCEPT ![t] = "delete_del"]
          /\ UNCHANGED <<note, updated, resp, scenario>>
  /\ UNCHANGED <<store, clock, nextId, budget, hist>>

DeleteNote(t) == \E note_id \in UUIDs : delete_note(t, note_id)

\* mutant: a key that has gone is not an error, as with dict.pop(k, None)
DeleteDelUnchecked(t) ==
  /\ pc[t] = "delete_del"
  /\ store' = DictDel(store, req[t].id)
  /\ Respond(t, req[t], HTTP_204_NO_CONTENT, <<>>)
  /\ deleted' = deleted \cup {req[t].id}
  /\ ndeleted' = ndeleted + 1
  /\ UNCHANGED <<clock, nextId, budget, nreq, created, ncreated, written, revived>>

\* NotesService.delete, line 103: `del` removes the entry (204), or raises
\* KeyError when the key has gone since line 101, which becomes 404.
DeleteDel(t) ==
  /\ pc[t] = "delete_del"
  /\ IF req[t].id \in Keys(store)
     THEN /\ store' = DictDel(store, req[t].id)
          /\ Respond(t, req[t], HTTP_204_NO_CONTENT, <<>>)
          /\ deleted' = deleted \cup {req[t].id}
          /\ ndeleted' = ndeleted + 1
     ELSE /\ Respond(t, req[t], HTTP_404_NOT_FOUND, <<>>)
          /\ UNCHANGED <<store, deleted, ndeleted>>
  /\ UNCHANGED <<clock, nextId, budget, nreq, created, ncreated, written, revived>>

\* ------------------------------------------------------------- claims
CreatedIds == {i \in UUIDs : created[i] # <<>>}
Blank(s) == \A i \in DOMAIN s : s[i] \in Whitespace
IsTitle(s) ==
  /\ s # None /\ s # ValueError /\ s # <<>>
  /\ ~Blank(s)
  /\ Head(s) \notin Whitespace /\ s[Len(s)] \notin Whitespace
\* thread t's update stores and answers in this step
UpdateStores(t) == pc[t] = "update_store" /\ pc'[t] = "idle"

\* C1: every successful create returns an id no earlier create returned,
\* deleted notes' ids included: the number of successful creates is the
\* number of distinct ids they returned.
C1_IdsNeverReused == ncreated = Cardinality(CreatedIds)

\* a second create has answered after a delete succeeded
C1_Witness == resp.op = "create" /\ resp.status = HTTP_201_CREATED /\ ncreated = 2 /\ deleted # {}

\* C2: concurrent operations take effect atomically; in particular, of two
\* updates of one note, one supplying only the title and one only the content,
\* neither write is lost: when an update stores its note over the one in the
\* store, a field its request did not supply keeps the value it has there.
C2_NoLostWrite ==
  [][\A t \in Threads :
       (UpdateStores(t) /\ req[t].id \in Keys(store)) =>
         LET old == DictGet(store, req[t].id)[1]
             new == DictGet(store', req[t].id)[1] IN
         /\ req[t].payload.title = None => new.title = old.title
         /\ req[t].payload.content = None => new.content = old.content]_vars

\* C3: a get of an id a create returned, with no update stored under it and
\* no delete of it since, answers 200 with the note create returned.
C3_GetReturnsCreated ==
  (resp.op = "get" /\ resp.id \in CreatedIds /\ resp.id \notin written \cup deleted)
    => (resp.status = HTTP_200_OK /\ resp.body = created[resp.id])

\* a get has answered with a created note that carries content
C3_Witness ==
  /\ resp.op = "get" /\ resp.status = HTTP_200_OK
  /\ resp.id \in CreatedIds \ (written \cup deleted)
  /\ resp.body[1].content = <<"a">>

\* C4: the note an update stores and returns has the title and the content
\* of its request where the request supplies them, and otherwise those the
\* note had when the update read it.
C4_UpdateOverwritesSupplied ==
  [][\A t \in Threads :
       UpdateStores(t) =>
         LET old == note[t][1]
             p == req[t].payload
             new == DictGet(store', req[t].id) IN
         /\ new # <<>>
         /\ resp'.status = HTTP_200_OK /\ resp'.body = new
         /\ new[1].title = (IF p.title # None THEN p.title ELSE old.title)
         /\ new[1].content = (IF p.content # None THEN p.content ELSE old.content)]_vars

\* the one update so far changed the title and kept a content that is set
C4_Witness ==
  /\ nreq = 2 /\ resp.op = "update" /\ resp.status = HTTP_200_OK
  /\ resp.body[1].title # created[resp.id][1].title
  /\ resp.body[1].content = created[resp.id][1].content
  /\ resp.body[1].content # None
  /\ DictGet(store, resp.id) = resp.body

\* C5: once a delete of an id has answered 204, the id is not in the store, a
\* get of it answers 404 and no delete of it answers 204 again, whatever is
\* done to other ids; an update of that same id that stores after the delete
\* is not among the operations the claim ranges over.
C5_DeletedStaysGone ==
  /\ \A id \in deleted \ revived :
       /\ id \notin Keys(store)
       /\ (resp.op = "get" /\ resp.id = id) => resp.status = HTTP_404_NOT_FOUND
  /\ revived = {} => ndeleted = Cardinality(deleted)

\* a get of a deleted id has answered 404
C5_Witness ==
  resp.op = "get" /\ resp.id \in deleted /\ resp.status = HTTP_404_NOT_FOUND

\* C6: after N successful creates and M successful deletes the store holds
\* N - M notes, those created and not deleted, and list returns the store;
\* a note no update has stored is as create returned it.  (An update that
\* stores under a deleted id adds a note no create accounts for.)
C6_ListCount ==
  /\ resp.op = "list" => (resp.status = HTTP_200_OK /\ resp.body = store)
  /\ revived = {} =>
       /\ Len(store) = ncreated - ndeleted
       /\ Keys(store) = CreatedIds \ deleted
       /\ \A i \in DOMAIN store :
            store[i].id \notin written => <<store[i]>> = created[store[i].id]

\* list has answered after a create and a delete, or after two creates
C6_Witness ==
  /\ resp.op = "list" /\ ncreated >= 1 /\ ncreated + ndeleted = 2
  /\ Len(resp.body) = ncreated - ndeleted

\* C7: a create whose title is empty or all whitespace answers 422 in the
\* very step, and the store and its history are as they were.
C7_BlankTitleRejected ==
  [][\A t \in Threads, title \in TitleInputs \ {None}, content \in ContentInputs :
       (Blank(title) /\ create_note(t, title, content)) =>
         /\ resp'.op = "create" /\ resp'.status = HTTP_422_UNPROCESSABLE
         /\ pc'[t] = "idle"
         /\ UNCHANGED <<store, hist>>]_vars

\* a create has been refused while the store holds a note
C7_Witness ==
  resp.op = "create" /\ resp.status = HTTP_422_UNPROCESSABLE /\ store # <<>>

\* C8: every stored title is a string that is not empty, not all whitespace
\* and has no whitespace at either end.
C8_StoredTitles == \A i \in DOMAIN store : IsTitle(store[i].title)

\* an update has replaced a stored title
C8_Witness ==
  \E i \in DOMAIN store :
    /\ store[i].id \in written
    /\ store[i].title # created[store[i].id][1].title

\* C9: every stored note has updated_at >= created_at.
C9_UpdatedNotBeforeCreated ==
  \A i \in DOMAIN store : store[i].updated_at >= store[i].created_at

\* C10: the note an update stores has an updated_at strictly later than
\* the one the note had when the update read it.
C10_UpdatedAtAdvances ==
  [][\A t \in Threads :
       UpdateStores(t) =>
         DictGet(store', req[t].id)[1].updated_at > note[t][1].updated_at]_vars

\* C11: every stored note, and every note an update is about to store, has
\* the id and the created_at its create returned; a note is stored once,
\* under its id, and an update stores under the id it read.
C11_IdCreatedAtImmutable ==
  /\ \A i \in DOMAIN store :
       LET n == store[i] IN
       /\ n.id \in CreatedIds
       /\ n.created_at = created[n.id][1].created_at
       /\ \A j \in DOMAIN store : store[j].id = n.id => j = i
  /\ \A t \in Threads :
       updated[t] # <<>> =>
         /\ updated[t][1].id = req[t].id
         /\ updated[t][1].id \in CreatedIds
         /\ updated[t][1].created_at = created[req[t].id][1].created_at

\* a stored note differs from the created one in title, content and updated_at
C11_Witness ==
  \E i \in DOMAIN store :
    LET n == store[i] c == created[store[i].id][1] IN
    /\ n.id \in written
    /\ n.title # c.title /\ n.content # c.content /\ n.updated_at # c.updated_at
    /\ n.created_at = c.created_at

\* C12: an update whose title is supplied and empty or all whitespace answers
\* 422 in the very step, whether or not the id is stored, and the store and
\* its history are as they were.
C12_BlankTitleUpdateRejected ==
  [][\A t \in Threads, note_id \in UUIDs, title \in TitleInputs \ {None},
        content \in ContentInputs :
       (Blank(title) /\ update_note(t, note_id, title, content)) =>
         /\ resp'.op = "update" /\ resp'.status = HTTP_422_UNPROCESSABLE
         /\ pc'[t] = "idle"
         /\ UNCHANGED <<store, clock, hist>>]_vars

\* an update of a stored note has been refused
C12_Witness ==
  /\ resp.op = "update" /\ resp.status = HTTP_422_UNPROCESSABLE
  /\ resp.id \in Keys(store)

\* a request is answered in the step that takes it up
AnswersAtOnce == nreq' = nreq + 1 /\ pc' = pc

\* C13: with requests sent one after another, a GET, a PUT with a valid body
\* and a DELETE of an id answer 404 exactly when the id is not in the store
\* at that moment, and 200, 200 and 204 when it is; and as long as the
\* requests are POST, GET, PUT content only, DELETE, GET of one note, the
\* answers are 201, 200 with the created note, 200 with the title unchanged,
\* 204 and 404.
C13_StatusByPresence ==
  /\ [][/\ (AnswersAtOnce /\ resp'.op = "get") =>
            resp'.status = (IF resp'.id \in Keys(store) THEN HTTP_200_OK
                            ELSE HTTP_404_NOT_FOUND)
        /\ (/\ AnswersAtOnce /\ resp'.op \in {"update", "delete"}
            /\ resp'.status # HTTP_422_UNPROCESSABLE) =>
            (resp'.status = HTTP_404_NOT_FOUND /\ resp'.id \notin Keys(store))
        /\ \A t \in Threads :
             /\ (Idle(t) /\ pc'[t] \in {"update_merge", "delete_del"}) =>
                  req'[t].id \in Keys(store)
             /\ UpdateStores(t) =>
                  (req[t].id \in Keys(store) /\ resp'.status = HTTP_200_OK)
             /\ (pc[t] = "delete_del" /\ pc'[t] = "idle") =>
                  (req[t].id \in Keys(store) /\ resp'.status = HTTP_204_NO_CONTENT)
       ]_vars
  /\ [](scenario.on =>
         /\ scenario.step = 1 =>
              /\ resp.op = "create" /\ resp.status = HTTP_201_CREATED
              /\ resp.id = scenario.id /\ resp.id \in CreatedIds
         /\ scenario.step = 2 =>
              /\ resp.op = "get" /\ resp.status = HTTP_200_OK
              /\ resp.body = created[scenario.id]
         /\ scenario.step = 3 =>
              /\ resp.op = "update" /\ resp.status = HTTP_200_OK
              /\ resp.body[1].title = created[scenario.id][1].title
              /\ resp.body[1].content # None
         /\ scenario.step = 4 =>
              (resp.op = "delete" /\ resp.status = HTTP_204_NO_CONTENT)
         /\ scenario.step = 5 =>
              /\ resp.op = "get" /\ resp.status = HTTP_404_NOT_FOUND
              /\ scenario.id \notin Keys(store))

\* the five requests of the scenario have been answered
C13_Witness == scenario.on /\ scenario.step = 5

\* C14: once a delete of an id has answered 204, no note with that id is in
\* the store again, also when an update of the id was in flight meanwhile.
C14_DeletedNeverBack == deleted \cap Keys(store) = {}

\* C15: a delete that found its id at line 101 always answers, 204 or 404,
\* and leaves the id out of the store; it answers 204 exactly when the id is
\* still there at line 103, so of two deletes of one id in flight together,
\* with no update storing under the id, one answers 204 and the other 404.
C15_OneDeleteWins ==
  [][\A t \in Threads :
       (pc[t] = "delete_del" /\ pc'[t] = "idle") =>
         LET id == req[t].id IN
         /\ resp'.op = "delete" /\ resp'.id = id
         /\ resp'.status = (IF id \in Keys(store) THEN HTTP_204_NO_CONTENT
                            ELSE HTTP_404_NOT_FOUND)
         /\ (id \in deleted \ revived) => resp'.status = HTTP_404_NOT_FOUND
         /\ id \notin Keys(store')
         /\ \A u \in Threads \ {t} :
              (pc[u] = "delete_del" /\ req[u].id = id /\ id \in Keys(store)) =>
                (pc'[u] = "delete_del" /\ id \notin Keys(store'))]_vars

\* one of two deletes of an id has answered 204, the other is at line 103
C15_Witness ==
  /\ resp.op = "delete" /\ resp.status = HTTP_204_NO_CONTENT
  /\ \E t \in Threads : pc[t] = "delete_del" /\ req[t].id = resp.id

\* C16: with requests sent one after another, an update whose content is
\* null does what the same update without content does, the note it stores
\* has the content the stored note had, and a content that is not null is
\* not null after an update.
C16_NullContentIsOmitted ==
  [][/\ \A t \in Threads :
          (/\ Admit(t) /\ nreq' # nreq
           /\ pc'[t] = "update_merge" \/ (pc' = pc /\ resp'.op = "update")) =>
            LET note_id == IF pc' = pc THEN resp'.id ELSE req'[t].id IN
            \A title \in TitleInputs :
              update_note(t, note_id, title, None) <=> update_note(t, note_id, title, Missing)
     /\ \A t \in Threads :
          UpdateStores(t) =>
            LET old == DictGet(store, req[t].id)[1]
                new == DictGet(store', req[t].id)[1] IN
            /\ req[t].payload.content = None => new.content = old.content
            /\ old.content # None => new.content # None]_vars

\* after an earlier update, an update without content is about to store a
\* note whose content is set
C16_Witness ==
  \E t \in Threads :
    /\ pc[t] = "update_store" /\ req[t].payload.content = None
    /\ req[t].id \in written
    /\ note[t][1].content # None /\ updated[t][1].content = note[t][1].content

\* C17: with requests sent one after another, an update of a stored id that
\* supplies neither title nor content answers 200 with the note it stores,
\* which is the stored note with updated_at replaced by the clock's reading.
C17_EmptyUpdateRestamps ==
  [][\A t \in Threads :
       (/\ UpdateStores(t)
        /\ req[t].payload.title = None /\ req[t].payload.content = None) =>
         LET old == DictGet(store, req[t].id)[1]
             new == DictGet(store', req[t].id) IN
         /\ resp'.status = HTTP_200_OK /\ resp'.body = new
         /\ new = <<[old EXCEPT !.updated_at = clock]>>
         /\ Len(store') = Len(store)]_vars

\* an update that supplies nothing is about to store a later updated_at
C17_Witness ==
  \E t \in Threads :
    /\ pc[t] = "update_store"
    /\ req[t].payload.title = None /\ req[t].payload.content = None
    /\ updated[t][1].updated_at > note[t][1].updated_at
    /\ DictGet(store, req[t].id) = note[t]

\* C18: a get, an update with a valid body and a delete of an id that is not
\* in the store answer 404 at once and leave the store and its history as
\* they were, as does a delete whose id has gone by line 103; a get and a
\* list leave the store as it was, whatever they answer.
C18_NotFoundChangesNothing ==
  [][\A t \in Threads :
       /\ \A note_id \in UUIDs \ Keys(store) :
            /\ (get_note(t, note_id) \/ delete_note(t, note_id)) =>
                 /\ resp'.status = HTTP_404_NOT_FOUND /\ pc'[t] = "idle"
                 /\ UNCHANGED <<store, hist>>
            /\ \A title \in TitleInputs, content \in ContentInputs :
                 (/\ NoteUpdate(title, content).title # ValueError
                  /\ update_note(t, note_id, title, content)) =>
                   /\ resp'.status = HTTP_404_NOT_FOUND /\ pc'[t] = "idle"
                   /\ UNCHANGED <<store, hist>>
       /\ (pc[t] = "delete_del" /\ pc'[t] = "idle" /\ req[t].id \notin Keys(store)) =>
            (resp'.status = HTTP_404_NOT_FOUND /\ UNCHANGED <<store, hist>>)
       /\ (GetNote(t) \/ ListNotes(t)) => UNCHANGED <<store, hist>>]_vars

\* an update of an id that was never created has answered 404 while a note
\* is stored
C18_Witness ==
  /\ resp.op = "update" /\ resp.status = HTTP_404_NOT_FOUND
  /\ resp.id \notin CreatedIds /\ store # <<>>

Next ==
  \E t \in Threads :
    \/ CreateNote(t)
    \/ CreateInsert(t)
    \/ ListNotes(t)
    \/ GetNote(t)
    \/ UpdateNote(t)
    \/ UpdateMerge(t)
    \/ UpdateStore(t)
    \/ DeleteNote(t)
    \/ DeleteDel(t)

Spec == Init /\ [][Next]_vars

\* ------------------------------------------------------------- one client
\* One client that waits for each answer before it sends the next request:
\* a single worker serves the requests, so none overlap.  The run is longer
\* than a concurrent one, and the client creates SeqNotes notes.
SeqInit ==
  /\ store = <<>>
  /\ clock = 0
  /\ nextId = 1
  /\ budget = SeqRequests
  /\ nreq = 0
  /\ pc = [t \in Threads |-> "idle"]
  /\ req = [t \in Threads |-> NoRequest]
  /\ note = [t \in Threads |-> <<>>]
  /\ updated = [t \in Threads |-> <<>>]
  /\ resp = NoResponse
  /\ created = [i \in UUIDs |-> <<>>]
  /\ ncreated = 0
  /\ deleted = {}
  /\ ndeleted = 0
  /\ written = {}
  /\ revived = {}
  /\ scenario = NoScenario

SeqNext ==
  \/ nextId <= SeqNotes /\ CreateNote(1)
  \/ CreateInsert(1)
  \/ ListNotes(1)
  \/ GetNote(1)
  \/ UpdateNote(1)
  \/ UpdateMerge(1)
  \/ UpdateStore(1)
  \/ DeleteNote(1)
  \/ DeleteDel(1)

SeqSpec == SeqInit /\ [][SeqNext]_vars

====
